---- MODULE Spec2Model ----
(***************************************************************************)
(* Model of the end-to-end encrypted messaging application:                *)
(*   - messageCrypto (encryptMessage / decryptMessage, AES-256-GCM),       *)
(*   - the Dashboard component's key-exchange and chat handlers,           *)
(*   - the server's key-exchange queue and encrypted message store.        *)
(* Cryptography is idealised symbolically: a ciphertext is a term that     *)
(* opens only under the same key, iv and associated data; a signature is a *)
(* term that verifies only under the signer's key over the same body.      *)
(***************************************************************************)
EXTENDS Integers, Sequences, FiniteSets, TLC

VARIABLES
    mc,            \* messageCrypto harness: inputs, envelope, decrypt result
    kxMessages,    \* server: in-memory key-exchange queue
    msgStore,      \* server: Message collection (insertion order)
    users,         \* server: User collection, the stored public key per user
    kxContext,     \* client state: kxContext per user
    chatMessages,  \* client state: chatMessages per user
    msgSeq,        \* client state: msgSeq per user
    kxVerified,    \* client: confirmations verified (the 'verified' log lines)
    inboxRun,      \* client: running handleCheckInbox invocation per user
    sendRun,       \* client: running handleSendMessage invocations per user
    fresh,         \* source of fresh random values (ids, keys, nonces)
    nextId,        \* server: distinct ids of queued messages
    wire,          \* messages ever queued on the server (history)
    replays,       \* number of raw /kx/send requests made so far
    sends,         \* number of handleSendMessage calls started so far
    lastStep       \* what the last client step did (observation)

vars == <<mc, kxMessages, msgStore, users, kxContext, chatMessages, msgSeq, kxVerified,
          inboxRun, sendRun, fresh, nextId, wire, replays, sends, lastStep>>

protoVars == <<kxMessages, msgStore, users, kxContext, chatMessages, msgSeq, kxVerified,
               inboxRun, sendRun, fresh, nextId, wire, replays, sends, lastStep>>

(***************************************************************************)
(* Bounds and input domains                                                *)
(***************************************************************************)
MaxSeqIn == 2      \* msgSeq inputs of the messageCrypto harness: 1..MaxSeqIn
MaxFresh == 3      \* fresh values available to handshakes
MaxReplay == 1     \* raw /kx/send requests
MaxSends == 2      \* handleSendMessage calls
MaxInFlight == 2   \* overlapping handleSendMessage calls per user
MaxDecrypts == 3   \* decryptMessage calls of one receiver
MaxQueued == 2     \* send requests in the routes-only specifications

\* Strings a sessionId or a username can be: the register route checks only
\* the length of a username and nothing checks a received sessionId.
StrVals == {"a", "a|a", "b"}
KeyVals == {"k1", "k2"}
Contents == {"hi", "yo"}
IVs == {1, 2}
ClockNow == {7}    \* Date.now() readings

Null == [null |-> TRUE]

(***************************************************************************)
(* messageCrypto                                                           *)
(***************************************************************************)
\* TextEncoder.encode / TextDecoder.decode
utf8Encode(s) == [utf8 |-> s]
utf8Decode(b) == b.utf8

\* JSON.stringify / JSON.parse of the plaintext object
jsonStringify(obj) == [json |-> obj]
jsonParse(s) == s.json

toBase64(bytes) == [b64 |-> bytes]

fromBase64(b64) == b64.b64

\* randomBytes(12): any value of the iv space, repeats included
randomBytes == IVs

\* crypto.subtle.encrypt with AES-GCM: ciphertext and tag, as a term
aesGcmEncrypt(aesKey, iv, aad, plaintext) ==
    [key |-> aesKey, iv |-> iv, aad |-> aad, pt |-> plaintext, tag |-> "ok"]

aesGcmDecrypt_noAad(aesKey, iv, aad, ct) ==
    IF ct.key = aesKey /\ ct.iv = iv /\ ct.tag = "ok"
    THEN [ok |-> TRUE, pt |-> ct.pt]
    ELSE [ok |-> FALSE]

\* crypto.subtle.decrypt with AES-GCM: the plaintext, or a rejection
aesGcmDecrypt(aesKey, iv, aad, ct) ==
    IF ct.key = aesKey /\ ct.iv = iv /\ ct.aad = aad /\ ct.tag = "ok"
    THEN [ok |-> TRUE, pt |-> ct.pt]
    ELSE [ok |-> FALSE]

\* `${sessionId}|${from}|${to}|${msgSeq}` at encryption
encryptAad(sessionId, from, to, seq) ==
    utf8Encode(sessionId \o "|" \o from \o "|" \o to \o "|" \o ToString(seq))

decryptAad_swapped(sessionId, from, to, seq) ==
    utf8Encode(sessionId \o "|" \o to \o "|" \o from \o "|" \o ToString(seq))

\* `${sessionId}|${from}|${to}|${msgSeq}` at decryption
decryptAad(sessionId, from, to, seq) ==
    utf8Encode(sessionId \o "|" \o from \o "|" \o to \o "|" \o ToString(seq))

\* encryptMessage returning an iv other than the one it encrypted with
encryptMessage_otherIv(aesKey, sessionId, from, to, seq, content, iv, timestamp) ==
    LET plaintextObj == [sessionId |-> sessionId, from |-> from, to |-> to,
                         msgSeq |-> seq, timestamp |-> timestamp,
                         content |-> content]
        plaintextBytes == utf8Encode(jsonStringify(plaintextObj))
        aad == encryptAad(sessionId, from, to, seq)
        ciphertext == aesGcmEncrypt(aesKey, iv, aad, plaintextBytes)
    IN  [ciphertext |-> toBase64(ciphertext), iv |-> toBase64(iv + 1),
         timestamp |-> timestamp, msgSeq |-> seq]

\* encryptMessage, with the random iv and the clock reading as parameters
encryptMessage(aesKey, sessionId, from, to, seq, content, iv, timestamp) ==
    LET plaintextObj == [sessionId |-> sessionId, from |-> from, to |-> to,
                         msgSeq |-> seq, timestamp |-> timestamp,
                         content |-> content]
        plaintextBytes == utf8Encode(jsonStringify(plaintextObj))
        aad == encryptAad(sessionId, from, to, seq)
        ciphertext == aesGcmEncrypt(aesKey, iv, aad, plaintextBytes)
    IN  [ciphertext |-> toBase64(ciphertext), iv |-> toBase64(iv),
         timestamp |-> timestamp, msgSeq |-> seq]

Thrown == [ok |-> FALSE]

\* decryptMessage preferring the envelope's timestamp to the plaintext's
decryptMessage_envTimestamp(aesKey, message) ==
    LET ivBytes == fromBase64(message.iv)
        cipherBytes == fromBase64(message.ciphertext)
        aad == decryptAad(message.sessionId, message.from, message.to,
                          message.msgSeq)
        plaintext == aesGcmDecrypt(aesKey, ivBytes, aad, cipherBytes)
    IN  IF ~plaintext.ok THEN Thrown
        ELSE LET obj == jsonParse(utf8Decode(plaintext.pt))
             IN  [ok |-> TRUE, from |-> message.from, to |-> message.to,
                  sessionId |-> message.sessionId, msgSeq |-> message.msgSeq,
                  timestamp |-> IF message.timestamp # 0 THEN message.timestamp
                                ELSE obj.timestamp,
                  content |-> obj.content]

\* decryptMessage: the result object, or Thrown when crypto.subtle.decrypt rejects
decryptMessage(aesKey, message) ==
    LET ivBytes == fromBase64(message.iv)
        cipherBytes == fromBase64(message.ciphertext)
        aad == decryptAad(message.sessionId, message.from, message.to,
                          message.msgSeq)
        plaintext == aesGcmDecrypt(aesKey, ivBytes, aad, cipherBytes)
    IN  IF ~plaintext.ok THEN Thrown
        ELSE LET obj == jsonParse(utf8Decode(plaintext.pt))
             IN  [ok |-> TRUE, from |-> message.from, to |-> message.to,
                  sessionId |-> message.sessionId, msgSeq |-> message.msgSeq,
                  timestamp |-> IF obj.timestamp # 0 THEN obj.timestamp
                                ELSE message.timestamp,
                  content |-> obj.content]

\* The envelope a caller builds from encryptMessage's result and its metadata
envelopeOf(encrypted, sessionId, from, to) ==
    [sessionId |-> sessionId, from |-> from, to |-> to,
     ciphertext |-> encrypted.ciphertext, iv |-> encrypted.iv,
     msgSeq |-> encrypted.msgSeq, timestamp |-> encrypted.timestamp]

(***************************************************************************)
(* messageCrypto harness: encrypt one message, let the storage layer alter *)
(* the envelope, decrypt it                                                *)
(***************************************************************************)
McIdle == [phase |-> "idle"]

McInputs ==
    [phase : {"input"}, key : KeyVals, sessionId : StrVals, from : StrVals,
     to : StrVals, msgSeq : 1..MaxSeqIn, content : Contents]

\* encryptMessage is called and the caller builds the envelope
McEncrypt ==
    /\ mc.phase = "input"
    /\ \E iv \in randomBytes, ts \in ClockNow :
         mc' = [phase |-> "encrypted", key |-> mc.key,
                sessionId |-> mc.sessionId, from |-> mc.from, to |-> mc.to,
                msgSeq |-> mc.msgSeq, content |-> mc.content,
                env |-> envelopeOf(
                          encryptMessage(mc.key, mc.sessionId, mc.from, mc.to,
                                         mc.msgSeq, mc.content, iv, ts),
                          mc.sessionId, mc.from, mc.to)]
    /\ UNCHANGED protoVars

\* the storage layer rewrites the envelope's metadata
McAlterMeta ==
    /\ mc.phase = "encrypted"
    /\ <<mc.env.sessionId, mc.env.from, mc.env.to, mc.env.msgSeq>>
         = <<mc.sessionId, mc.from, mc.to, mc.msgSeq>>
    /\ \E s \in StrVals, f \in StrVals, t \in StrVals, n \in 1..MaxSeqIn :
         mc' = [mc EXCEPT !.env.sessionId = s, !.env.from = f, !.env.to = t,
                          !.env.msgSeq = n]
    /\ UNCHANGED protoVars

\* the storage layer flips bits of the ciphertext
McTamperCiphertext ==
    /\ mc.phase = "encrypted"
    /\ mc.env.ciphertext.b64.tag = "ok"
    /\ mc' = [mc EXCEPT !.env.ciphertext.b64.tag = "bad"]
    /\ UNCHANGED protoVars

\* the storage layer replaces the iv
McAlterIv ==
    /\ mc.phase = "encrypted"
    /\ mc.env.iv = toBase64(mc.env.ciphertext.b64.iv)
    /\ \E iv \in IVs \ {mc.env.ciphertext.b64.iv} :
         mc' = [mc EXCEPT !.env.iv = toBase64(iv)]
    /\ UNCHANGED protoVars

\* Values the storage layer can put in an envelope's timestamp field; 0
\* stands for none
EnvTimestamps == {0, 5}

\* the storage layer replaces the envelope's timestamp
McAlterTimestamp ==
    /\ mc.phase = "encrypted"
    /\ mc.env.timestamp \in ClockNow
    /\ \E ts \in EnvTimestamps :
         mc' = [mc EXCEPT !.env.timestamp = ts]
    /\ UNCHANGED protoVars

\* decryptMessage is called on the envelope as it now is
McDecrypt ==
    /\ mc.phase = "encrypted"
    /\ \E k \in KeyVals :
         mc' = [phase |-> "decrypted", key |-> mc.key,
                sessionId |-> mc.sessionId, from |-> mc.from, to |-> mc.to,
                msgSeq |-> mc.msgSeq, content |-> mc.content, env |-> mc.env,
                decKey |-> k, res |-> decryptMessage(k, mc.env)]
    /\ UNCHANGED protoVars

\* A receiver holding two valid envelopes of one sender and session, the
\* second with the higher msgSeq, and the calls of decryptMessage made so far
RxInputs ==
    {[phase |-> "replay", key |-> k,
      envs |-> <<envelopeOf(encryptMessage(k, sid, "a", "b", lo, c[1], iv[1], ts),
                            sid, "a", "b"),
                 envelopeOf(encryptMessage(k, sid, "a", "b", hi, c[2], iv[2], ts),
                            sid, "a", "b")>>,
      calls |-> <<>>] :
        k \in KeyVals, sid \in StrVals, lo \in 1..MaxSeqIn, hi \in 1..MaxSeqIn,
        c \in [{1, 2} -> Contents], iv \in [{1, 2} -> IVs], ts \in ClockNow}

decryptNext_highWater(aesKey, calls, message) ==
    IF \E j \in DOMAIN calls : calls[j].res.ok /\ calls[j].res.msgSeq >= message.msgSeq
    THEN Thrown
    ELSE decryptMessage(aesKey, message)

\* decryptMessage called after the earlier calls: nothing of them is consulted
decryptNext(aesKey, calls, message) == decryptMessage(aesKey, message)

\* the receiver decrypts one of its envelopes, again or for the first time
RxDecrypt ==
    /\ mc.phase = "replay"
    /\ Len(mc.calls) < MaxDecrypts
    /\ \E i \in DOMAIN mc.envs :
         mc' = [mc EXCEPT !.calls =
                   Append(@, [i |-> i,
                              res |-> decryptNext(mc.key, mc.calls, mc.envs[i])])]
    /\ UNCHANGED protoVars

(***************************************************************************)
(* Key-exchange primitives (utils/keyExchange), idealised                  *)
(***************************************************************************)
Users == {"alice", "bob"}
MsgTypes == {"KEY_INIT", "KEY_RESP", "KEY_CONFIRM_A", "KEY_CONFIRM_B"}

\* A random sessionId, as a string
sidOf(f) == "s" \o ToString(f)

\* ECDH: both sides reach the same secret from their own private scalar and
\* the other side's public point
ecdhPublic(priv) == [g |-> priv]
ecdhShared(priv, pub) == {priv, pub.g}

\* Long-term signature over the canonical encoding of a body
signBody(user, body) == [signer |-> user, body |-> body]
verifyBody(signature, publicKey, body) ==
    signature.signer = publicKey.owner /\ signature.body = body

\* Hash(canonical(initBody) || canonical(respBody))
transcriptHashOf(initBody, respBody) == [h |-> <<initBody, respBody>>]

\* HKDF over the shared secret, nonceA || nonceB and the context string
deriveSessionKey(shared, nonceA, nonceB, sessionId, userA, userB) ==
    [ss |-> shared, salt |-> <<nonceA, nonceB>>,
     info |-> <<sessionId, userA, userB>>]

isSignedPayload(payload) == DOMAIN payload = {"body", "signature"}
isConfirmPayload(payload) == DOMAIN payload = {"confirm", "iv"}

\* createKeyInit(self, peer), f the fresh randomness it draws
createKeyInit(self, peer, f) ==
    LET body == [sessionId |-> sidOf(f), from |-> self, to |-> peer,
                 ephPub |-> ecdhPublic(f), nonce |-> f]
    IN  [body |-> body, signature |-> signBody(self, body),
         context |-> [ephPriv |-> f, nonceA |-> f, sessionId |-> sidOf(f)]]

\* processKeyInitAndCreateResp(body, signature, initiatorPublicKey, self)
processKeyInitAndCreateResp(payload, initiatorPublicKey, self, f) ==
    IF ~isSignedPayload(payload) THEN Thrown
    ELSE IF ~verifyBody(payload.signature, initiatorPublicKey, payload.body)
    THEN Thrown
    ELSE
      LET body == payload.body
          respBody == [sessionId |-> body.sessionId, from |-> self,
                       to |-> body.from, ephPub |-> ecdhPublic(f), nonce |-> f]
          shared == ecdhShared(f, body.ephPub)
          th == transcriptHashOf(body, respBody)
          key == deriveSessionKey(shared, body.nonce, f, body.sessionId,
                                  body.from, self)
      IN  [ok |-> TRUE, body |-> respBody,
           signature |-> signBody(self, respBody),
           sessionContext |-> [aesKey |-> key, transcriptHash |-> th,
                               nonceA |-> body.nonce, nonceB |-> f]]

\* processKeyRespAndDeriveKey(respBody, respSignature, responderPublicKey,
\*                            initBody, initiatorContext)
processKeyRespAndDeriveKey(payload, responderPublicKey, initBody, initContext) ==
    IF ~isSignedPayload(payload) THEN Thrown
    ELSE IF ~verifyBody(payload.signature, responderPublicKey, payload.body)
    THEN Thrown
    ELSE
      LET respBody == payload.body
          shared == ecdhShared(initContext.ephPriv, respBody.ephPub)
          th == transcriptHashOf(initBody, respBody)
          key == deriveSessionKey(shared, initContext.nonceA, respBody.nonce,
                                  initBody.sessionId, initBody.from,
                                  respBody.from)
      IN  [ok |-> TRUE, aesKey |-> key, sessionId |-> initBody.sessionId,
           transcriptHash |-> th]

\* createKeyConfirm(type, sessionId, self, peer, aesKey, transcriptHash)
createKeyConfirm(type, sessionId, self, peer, aesKey, th) ==
    [confirm |-> aesGcmEncrypt(aesKey, 0, [th |-> th],
                               [type |-> type, sessionId |-> sessionId,
                                from |-> self, to |-> peer]),
     iv |-> 0]

\* decryptAndVerifyKeyConfirm(payload, aesKey, transcriptHash): TRUE, or
\* FALSE when it throws
decryptAndVerifyKeyConfirm(payload, aesKey, th) ==
    /\ isConfirmPayload(payload)
    /\ aesKey # Null
    /\ aesGcmDecrypt(aesKey, payload.iv, [th |-> th], payload.confirm).ok

(***************************************************************************)
(* Server: key-exchange queue, public keys, encrypted message store        *)
(***************************************************************************)
\* String.prototype.toLowerCase on the names in use
toLowerCase(name) == IF name = "Alice" THEN "alice" ELSE name

\* A public key, named by the holder of its private half
keyOf(holder) == [owner |-> holder]

\* GET /auth/public-key/:username, answered 200: the stored publicKey
getPublicKey(username) == users[username].publicKey

\* POST /kx/send by the authenticated user `from`
kxSend(queue, id, from, to, messageType, payload) ==
    Append(queue, [id |-> id, from |-> from, to |-> to,
                   messageType |-> messageType, payload |-> payload])

\* GET /kx/inbox: the messages addressed to `username`, in queue order
inboxOf(queue, username) ==
    SelectSeq(queue, LAMBDA m : toLowerCase(m.to) = toLowerCase(username))

RECURSIVE removeById(_, _)
\* kxMessages.splice(findIndex(id), 1)
removeById(queue, id) ==
    IF queue = <<>> THEN <<>>
    ELSE IF Head(queue).id = id THEN Tail(queue)
    ELSE <<Head(queue)>> \o removeById(Tail(queue), id)

\* A splice loop that stops before the last delivered message
removeDelivered_butLast(queue, delivered) ==
    SelectSeq(queue, LAMBDA m :
        \A k \in 1..(Len(delivered) - 1) : delivered[k].id # m.id)

RECURSIVE removeDelivered(_, _)
\* GET /kx/inbox: the queue after the delivered messages are removed
removeDelivered(queue, delivered) ==
    IF delivered = <<>> THEN queue
    ELSE removeDelivered(removeById(queue, Head(delivered).id), Tail(delivered))

\* POST /messages/send by the authenticated user `from`
storeMessage(store, from, body) ==
    Append(store, [sessionId |-> body.sessionId, from |-> from, to |-> body.to,
                   ciphertext |-> body.ciphertext, iv |-> body.iv,
                   msgSeq |-> body.msgSeq, timestamp |-> body.timestamp])

\* A sort on msgSeq alone
sortsBefore_seqOnly(m, n) == m.msgSeq < n.msgSeq

\* m sorts before n under { msgSeq: 1, timestamp: 1 }
sortsBefore(m, n) ==
    \/ m.msgSeq < n.msgSeq
    \/ (m.msgSeq = n.msgSeq /\ m.timestamp < n.timestamp)

\* .sort({ msgSeq: 1, timestamp: 1 }), equal keys staying in stored order
sortConversation(msgs) ==
    LET rank(i) == Cardinality({j \in DOMAIN msgs :
                        \/ sortsBefore(msgs[j], msgs[i])
                        \/ (~sortsBefore(msgs[i], msgs[j]) /\ j < i)}) + 1
    IN  [k \in DOMAIN msgs |-> msgs[CHOOSE i \in DOMAIN msgs : rank(i) = k]]

\* Criteria that match the peer and the session but not the caller
getConversation_anyParty(store, me, peer, sessionId) ==
    sortConversation(
        SelectSeq(store, LAMBDA m :
            /\ m.sessionId = sessionId
            /\ (m.to = peer \/ m.from = peer)))

\* GET /messages/conversation/:peerUsername/:sessionId for caller `me`
getConversation(store, me, peer, sessionId) ==
    sortConversation(
        SelectSeq(store, LAMBDA m :
            /\ m.sessionId = sessionId
            /\ \/ (m.from = me /\ m.to = peer)
               \/ (m.from = peer /\ m.to = me)))

(***************************************************************************)
(* Dashboard: state and the key-exchange handlers                          *)
(***************************************************************************)
\* A guard that does not look at the session key
canChat_noKey(ctx) == ctx # Null /\ ctx.peer # ""

\* canChat = kxContext && kxContext.aesKey && kxContext.peer
canChat(ctx) == ctx # Null /\ ctx.aesKey # Null /\ ctx.peer # ""

\* lastStep after anything but a loop iteration of handleCheckInbox
OtherStep == [op |-> "other"]

\* The server's queue and store are empty and no client has done anything
EmptyInit ==
    /\ kxMessages = <<>>
    /\ msgStore = <<>>
    /\ kxContext = [u \in Users |-> Null]
    /\ chatMessages = [u \in Users |-> <<>>]
    /\ msgSeq = [u \in Users |-> 1]
    /\ kxVerified = [u \in Users |-> {}]
    /\ inboxRun = [u \in Users |-> Null]
    /\ sendRun = [u \in Users |-> <<>>]
    /\ fresh = 1
    /\ nextId = 1
    /\ wire = {}
    /\ replays = 0
    /\ sends = 0
    /\ lastStep = OtherStep

\* Every user has registered and uploaded the public key of their own pair;
\* setBy and first record who stored the current key and the key first stored
ProtoInit ==
    /\ users = [u \in Users |->
                  [publicKey |-> keyOf(u), setBy |-> u, first |-> keyOf(u)]]
    /\ EmptyInit

\* handleStartKeyExchange with peerUsername = peer
handleStartKeyExchange(u, peer) ==
    /\ peer # ""
    /\ fresh <= MaxFresh
    /\ LET init == createKeyInit(u, peer, fresh)
           payload == [body |-> init.body, signature |-> init.signature]
       IN  /\ kxContext' = [kxContext EXCEPT ![u] =
                 [role |-> "initiator", peer |-> peer,
                  keyInitBody |-> init.body, initContext |-> init.context,
                  sessionId |-> init.body.sessionId, aesKey |-> Null,
                  transcriptHash |-> Null]]
           /\ kxMessages' = kxSend(kxMessages, nextId, u, peer, "KEY_INIT", payload)
           /\ wire' = wire \cup {[messageType |-> "KEY_INIT", payload |-> payload]}
    /\ fresh' = fresh + 1
    /\ nextId' = nextId + 1
    /\ lastStep' = OtherStep
    /\ UNCHANGED <<mc, users, msgStore, chatMessages, msgSeq, kxVerified, inboxRun,
                   sendRun, replays, sends>>

\* handleCheckInbox up to the loop: kxAPI.getInbox() answers with a batch
CheckInboxFetch(u) ==
    /\ inboxRun[u] = Null
    /\ inboxOf(kxMessages, u) # <<>>
    /\ inboxRun' = [inboxRun EXCEPT ![u] =
          [kxContext |-> kxContext[u], messages |-> inboxOf(kxMessages, u)]]
    /\ kxMessages' = removeDelivered(kxMessages, inboxOf(kxMessages, u))
    /\ lastStep' = OtherStep
    /\ UNCHANGED <<mc, users, msgStore, kxContext, chatMessages, msgSeq, kxVerified,
                   sendRun, fresh, nextId, wire, replays, sends>>

\* The running handler after one loop iteration: the rest of the batch, or
\* nothing when the batch is done or the iteration threw
inboxAfter(run, threw) ==
    IF threw \/ Len(run.messages) = 1 THEN Null
    ELSE [kxContext |-> run.kxContext, messages |-> Tail(run.messages)]

\* The branch of the loop body that a message takes, given the kxContext the
\* handler was created with
branchOf(msg, ctx) ==
    IF msg.messageType = "KEY_INIT" THEN "KEY_INIT"
    ELSE IF msg.messageType = "KEY_RESP" /\ ctx # Null /\ ctx.role = "initiator"
    THEN "KEY_RESP"
    ELSE IF msg.messageType = "KEY_CONFIRM_A" /\ ctx # Null /\ ctx.role = "responder"
    THEN "KEY_CONFIRM_A"
    ELSE IF msg.messageType = "KEY_CONFIRM_B" /\ ctx # Null /\ ctx.role = "initiator"
    THEN "KEY_CONFIRM_B"
    ELSE "unrelated"

\* The sessionId a key-exchange message carries
sessionIdOf(msg) ==
    IF isSignedPayload(msg.payload) THEN msg.payload.body.sessionId
    ELSE msg.payload.confirm.pt.sessionId

stepOf(u, msg, branch, threw) ==
    [op |-> "process", user |-> u, branch |-> branch, threw |-> threw,
     messageType |-> msg.messageType, from |-> msg.from,
     sessionId |-> sessionIdOf(msg), signed |-> isSignedPayload(msg.payload)]

\* setKxContext of the KEY_INIT branch: reached only when
\* processKeyInitAndCreateResp returned
contextAfterKeyInit_early(current, msg, r) ==
    [role |-> "responder", peer |-> msg.from,
     keyInitBody |-> IF isSignedPayload(msg.payload) THEN msg.payload.body ELSE Null,
     initContext |-> Null,
     sessionId |-> sessionIdOf(msg),
     aesKey |-> IF r.ok THEN r.sessionContext.aesKey ELSE Null,
     transcriptHash |-> IF r.ok THEN r.sessionContext.transcriptHash ELSE Null]

contextAfterKeyInit_noKey(current, msg, r) ==
    IF ~r.ok THEN current
    ELSE [role |-> "responder", peer |-> msg.from,
          keyInitBody |-> msg.payload.body,
          initContext |-> Null,
          sessionId |-> msg.payload.body.sessionId,
          aesKey |-> Null,
          transcriptHash |-> r.sessionContext.transcriptHash]

contextAfterKeyInit_merged(current, msg, r) ==
    IF ~r.ok THEN current
    ELSE [role |-> "responder", peer |-> msg.from,
          keyInitBody |-> msg.payload.body,
          initContext |-> IF current = Null THEN Null ELSE current.initContext,
          sessionId |-> msg.payload.body.sessionId,
          aesKey |-> r.sessionContext.aesKey,
          transcriptHash |-> r.sessionContext.transcriptHash]

contextAfterKeyInit(current, msg, r) ==
    IF ~r.ok THEN current
    ELSE [role |-> "responder", peer |-> msg.from,
          keyInitBody |-> msg.payload.body,
          initContext |-> Null,
          sessionId |-> msg.payload.body.sessionId,
          aesKey |-> r.sessionContext.aesKey,
          transcriptHash |-> r.sessionContext.transcriptHash]

\* handleCheckInbox, loop body, KEY_INIT branch
ProcessKeyInit(u) ==
    /\ inboxRun[u] # Null
    /\ LET run == inboxRun[u]
           msg == Head(run.messages)
           r == processKeyInitAndCreateResp(
                    msg.payload, getPublicKey(msg.from), u, fresh)
           resp == [body |-> r.body, signature |-> r.signature]
       IN  /\ branchOf(msg, run.kxContext) = "KEY_INIT"
           /\ r.ok => fresh <= MaxFresh
           /\ kxContext' = [kxContext EXCEPT ![u] =
                                contextAfterKeyInit(kxContext[u], msg, r)]
           /\ IF r.ok
              THEN /\ kxMessages' = kxSend(kxMessages, nextId, u, msg.from,
                                           "KEY_RESP", resp)
                   /\ wire' = wire \cup {[messageType |-> "KEY_RESP", payload |-> resp]}
                   /\ fresh' = fresh + 1
                   /\ nextId' = nextId + 1
              ELSE UNCHANGED <<kxMessages, wire, fresh, nextId>>
           /\ inboxRun' = [inboxRun EXCEPT ![u] = inboxAfter(run, ~r.ok)]
           /\ lastStep' = stepOf(u, msg, "KEY_INIT", ~r.ok)
    /\ UNCHANGED <<mc, users, msgStore, chatMessages, msgSeq, kxVerified, sendRun,
                   replays, sends>>

contextAfterKeyResp_noKey(current, own, r) ==
    IF ~r.ok THEN current
    ELSE [own EXCEPT !.sessionId = r.sessionId,
                     !.transcriptHash = r.transcriptHash]

\* updatedContext of the KEY_RESP branch: the handler's own kxContext with the
\* derived values
contextAfterKeyResp(current, own, r) ==
    IF ~r.ok THEN current
    ELSE [own EXCEPT !.aesKey = r.aesKey, !.sessionId = r.sessionId,
                     !.transcriptHash = r.transcriptHash]

\* handleCheckInbox, loop body, KEY_RESP branch
ProcessKeyResp(u) ==
    /\ inboxRun[u] # Null
    /\ LET run == inboxRun[u]
           own == run.kxContext
           msg == Head(run.messages)
           r == processKeyRespAndDeriveKey(
                    msg.payload, getPublicKey(msg.from), own.keyInitBody,
                    own.initContext)
           confirmMsg == createKeyConfirm("KEY_CONFIRM_A", r.sessionId, u,
                                          msg.from, r.aesKey, r.transcriptHash)
       IN  /\ branchOf(msg, own) = "KEY_RESP"
           /\ kxContext' = [kxContext EXCEPT ![u] =
                                contextAfterKeyResp(kxContext[u], own, r)]
           /\ IF r.ok
              THEN /\ kxMessages' = kxSend(kxMessages, nextId, u, msg.from,
                                           "KEY_CONFIRM_A", confirmMsg)
                   /\ wire' = wire \cup {[messageType |-> "KEY_CONFIRM_A",
                                            payload |-> confirmMsg]}
                   /\ nextId' = nextId + 1
              ELSE UNCHANGED <<kxMessages, wire, nextId>>
           /\ inboxRun' = [inboxRun EXCEPT ![u] = inboxAfter(run, ~r.ok)]
           /\ lastStep' = stepOf(u, msg, "KEY_RESP", ~r.ok)
    /\ UNCHANGED <<mc, users, msgStore, chatMessages, msgSeq, kxVerified, sendRun,
                   fresh, replays, sends>>

ProcessKeyConfirmA_unverified(u) ==
    /\ inboxRun[u] # Null
    /\ LET run == inboxRun[u]
           own == run.kxContext
           msg == Head(run.messages)
           ok == decryptAndVerifyKeyConfirm(msg.payload, own.aesKey,
                                            own.transcriptHash)
           confirmB == createKeyConfirm("KEY_CONFIRM_B", own.sessionId, u,
                                        msg.from, own.aesKey, own.transcriptHash)
       IN  /\ branchOf(msg, own) = "KEY_CONFIRM_A"
           /\ kxVerified' = [kxVerified EXCEPT ![u] =
                 IF ok THEN @ \cup {<<"KEY_CONFIRM_A", own.sessionId>>} ELSE @]
           /\ kxMessages' = kxSend(kxMessages, nextId, u, msg.from,
                                   "KEY_CONFIRM_B", confirmB)
           /\ wire' = wire \cup {[messageType |-> "KEY_CONFIRM_B",
                                    payload |-> confirmB]}
           /\ nextId' = nextId + 1
           /\ inboxRun' = [inboxRun EXCEPT ![u] = inboxAfter(run, ~ok)]
           /\ lastStep' = stepOf(u, msg, "KEY_CONFIRM_A", ~ok)
    /\ UNCHANGED <<mc, users, msgStore, kxContext, chatMessages, msgSeq, sendRun,
                   fresh, replays, sends>>

\* handleCheckInbox, loop body, KEY_CONFIRM_A branch
ProcessKeyConfirmA(u) ==
    /\ inboxRun[u] # Null
    /\ LET run == inboxRun[u]
           own == run.kxContext
           msg == Head(run.messages)
           ok == decryptAndVerifyKeyConfirm(msg.payload, own.aesKey,
                                            own.transcriptHash)
           confirmB == createKeyConfirm("KEY_CONFIRM_B", own.sessionId, u,
                                        msg.from, own.aesKey, own.transcriptHash)
       IN  /\ branchOf(msg, own) = "KEY_CONFIRM_A"
           /\ IF ok
              THEN /\ kxVerified' = [kxVerified EXCEPT ![u] =
                                        @ \cup {<<"KEY_CONFIRM_A", own.sessionId>>}]
                   /\ kxMessages' = kxSend(kxMessages, nextId, u, msg.from,
                                           "KEY_CONFIRM_B", confirmB)
                   /\ wire' = wire \cup {[messageType |-> "KEY_CONFIRM_B",
                                            payload |-> confirmB]}
                   /\ nextId' = nextId + 1
              ELSE UNCHANGED <<kxVerified, kxMessages, wire, nextId>>
           /\ inboxRun' = [inboxRun EXCEPT ![u] = inboxAfter(run, ~ok)]
           /\ lastStep' = stepOf(u, msg, "KEY_CONFIRM_A", ~ok)
    /\ UNCHANGED <<mc, users, msgStore, kxContext, chatMessages, msgSeq, sendRun,
                   fresh, replays, sends>>

\* handleCheckInbox, loop body, KEY_CONFIRM_B branch
ProcessKeyConfirmB(u) ==
    /\ inboxRun[u] # Null
    /\ LET run == inboxRun[u]
           own == run.kxContext
           msg == Head(run.messages)
           ok == decryptAndVerifyKeyConfirm(msg.payload, own.aesKey,
                                            own.transcriptHash)
       IN  /\ branchOf(msg, own) = "KEY_CONFIRM_B"
           /\ kxVerified' = [kxVerified EXCEPT ![u] =
                 IF ok THEN @ \cup {<<"KEY_CONFIRM_B", own.sessionId>>} ELSE @]
           /\ inboxRun' = [inboxRun EXCEPT ![u] = inboxAfter(run, ~ok)]
           /\ lastStep' = stepOf(u, msg, "KEY_CONFIRM_B", ~ok)
    /\ UNCHANGED <<mc, users, kxMessages, msgStore, kxContext, chatMessages, msgSeq,
                   sendRun, fresh, nextId, wire, replays, sends>>

\* handleCheckInbox, loop body, else branch: the message is only logged
ProcessUnrelated(u) ==
    /\ inboxRun[u] # Null
    /\ LET run == inboxRun[u]
           msg == Head(run.messages)
       IN  /\ branchOf(msg, run.kxContext) = "unrelated"
           /\ inboxRun' = [inboxRun EXCEPT ![u] = inboxAfter(run, FALSE)]
           /\ lastStep' = stepOf(u, msg, "unrelated", FALSE)
    /\ UNCHANGED <<mc, users, kxMessages, msgStore, kxContext, chatMessages, msgSeq,
                   kxVerified, sendRun, fresh, nextId, wire, replays, sends>>

\* A raw POST /kx/send by an authenticated user: a message seen on the
\* transport, queued again for any recipient
KxSendRaw(u) ==
    /\ replays < MaxReplay
    /\ \E to \in Users, m \in wire :
         kxMessages' = kxSend(kxMessages, nextId, u, to, m.messageType, m.payload)
    /\ nextId' = nextId + 1
    /\ replays' = replays + 1
    /\ lastStep' = OtherStep
    /\ UNCHANGED <<mc, users, msgStore, kxContext, chatMessages, msgSeq, kxVerified,
                   inboxRun, sendRun, fresh, wire, sends>>

(***************************************************************************)
(* Dashboard: the chat handlers                                            *)
(***************************************************************************)
\* POST /messages/send: the request body passes the route's validation
messagesSendAccepts(body) ==
    /\ body.sessionId # ""
    /\ body.to # ""
    /\ body.msgSeq \in Int

removeAt(seq, i) == SubSeq(seq, 1, i - 1) \o SubSeq(seq, i + 1, Len(seq))

\* The request body handleSendMessage posts
sendBodyOf(call) ==
    [sessionId |-> call.sessionId, to |-> call.peer,
     ciphertext |-> call.encrypted.ciphertext, iv |-> call.encrypted.iv,
     msgSeq |-> call.currentSeq, timestamp |-> call.encrypted.timestamp]

\* const currentSeq = msgSeq, read from the render the handler belongs to
currentSeqOf(u) == msgSeq[u]

\* handleSendMessage up to the POST: the guard, currentSeq and encryptMessage
SendBegin(u) ==
    /\ canChat(kxContext[u])
    /\ sends < MaxSends
    /\ Len(sendRun[u]) < MaxInFlight
    /\ \E content \in Contents, iv \in randomBytes, ts \in ClockNow :
         LET ctx == kxContext[u]
             currentSeq == currentSeqOf(u)
             encrypted == encryptMessage(ctx.aesKey, ctx.sessionId, u, ctx.peer,
                                         currentSeq, content, iv, ts)
         IN  sendRun' = [sendRun EXCEPT ![u] =
                 Append(@, [peer |-> ctx.peer, sessionId |-> ctx.sessionId,
                            currentSeq |-> currentSeq, content |-> content,
                            encrypted |-> encrypted])]
    /\ sends' = sends + 1
    /\ lastStep' = OtherStep
    /\ UNCHANGED <<mc, users, kxMessages, msgStore, kxContext, chatMessages, msgSeq,
                   kxVerified, inboxRun, fresh, nextId, wire, replays>>

\* handleSendMessage from the POST on, the POST succeeding: the server stores
\* the message, then setChatMessages and setMsgSeq(currentSeq + 1)
SendComplete(u) ==
    /\ \E i \in 1..Len(sendRun[u]) :
         LET call == sendRun[u][i]
         IN  /\ messagesSendAccepts(sendBodyOf(call))
             /\ msgStore' = storeMessage(msgStore, u, sendBodyOf(call))
             /\ chatMessages' = [chatMessages EXCEPT ![u] =
                   Append(@, [from |-> u, to |-> call.peer,
                              content |-> call.content,
                              timestamp |-> call.encrypted.timestamp])]
             /\ msgSeq' = [msgSeq EXCEPT ![u] = call.currentSeq + 1]
             /\ sendRun' = [sendRun EXCEPT ![u] = removeAt(@, i)]
    /\ lastStep' = OtherStep
    /\ UNCHANGED <<mc, users, kxMessages, kxContext, kxVerified, inboxRun, fresh,
                   nextId, wire, replays, sends>>

\* handleSendMessage from the POST on, the POST failing at the client (the
\* request or its response is lost): the catch block only logs
SendFail(u) ==
    /\ \E i \in 1..Len(sendRun[u]), stored \in BOOLEAN :
         LET call == sendRun[u][i]
         IN  /\ msgStore' = IF stored
                            THEN storeMessage(msgStore, u, sendBodyOf(call))
                            ELSE msgStore
             /\ sendRun' = [sendRun EXCEPT ![u] = removeAt(@, i)]
    /\ lastStep' = OtherStep
    /\ UNCHANGED <<mc, users, kxMessages, kxContext, chatMessages, msgSeq, kxVerified,
                   inboxRun, fresh, nextId, wire, replays, sends>>

\* The loop of handleLoadMessages: an entry per envelope that decrypts
decryptAll(aesKey, envelopes) ==
    LET passed == SelectSeq(envelopes,
                            LAMBDA e : decryptMessage(aesKey, e).ok)
    IN  [i \in DOMAIN passed |->
            [from |-> decryptMessage(aesKey, passed[i]).from,
             to |-> decryptMessage(aesKey, passed[i]).to,
             content |-> decryptMessage(aesKey, passed[i]).content,
             timestamp |-> decryptMessage(aesKey, passed[i]).timestamp]]

\* handleLoadMessages
HandleLoadMessages(u) ==
    /\ canChat(kxContext[u])
    /\ \E encryptedMessages \in {getConversation(msgStore, u, kxContext[u].peer,
                                                  kxContext[u].sessionId)} :
         \E decrypted \in {decryptAll(kxContext[u].aesKey, encryptedMessages)} :
            chatMessages' = [chatMessages EXCEPT ![u] = decrypted]
    /\ lastStep' = OtherStep
    /\ UNCHANGED <<mc, users, kxMessages, msgStore, kxContext, msgSeq, kxVerified,
                   inboxRun, sendRun, fresh, nextId, wire, replays, sends>>

(***************************************************************************)
(* Server: the public-key routes                                           *)
(***************************************************************************)
\* Who can send a request: the users, and someone without an account
Callers == Users \cup {"mallory"}

\* The username of a request: an account, or a name with no account
Usernames == Users \cup {"nobody"}

\* The publicKey of a request body: absent, or the public half of someone's pair
KeyUploads == {Null} \cup {keyOf(h) : h \in Callers}

\* POST /update-public-key: the response status
updatePublicKeyStatus(username, publicKey) ==
    IF username = "" \/ publicKey = Null THEN 400
    ELSE IF username \notin DOMAIN users THEN 404
    ELSE 200

\* POST /update-public-key sent by caller: the User collection afterwards
updatePublicKey(caller, username, publicKey) ==
    IF updatePublicKeyStatus(username, publicKey) = 200
    THEN [users EXCEPT ![username] =
             [publicKey |-> publicKey, setBy |-> caller,
              first |-> IF @.first = Null THEN publicKey ELSE @.first]]
    ELSE users

PostUpdatePublicKey ==
    /\ \E caller \in Callers, username \in Usernames, publicKey \in KeyUploads :
         /\ users' = updatePublicKey(caller, username, publicKey)
         /\ lastStep' = [op |-> "update-public-key", caller |-> caller,
                         username |-> username,
                         status |-> updatePublicKeyStatus(username, publicKey)]
    /\ UNCHANGED <<mc, kxMessages, msgStore, kxContext, chatMessages, msgSeq,
                   kxVerified, inboxRun, sendRun, fresh, nextId, wire, replays,
                   sends>>

\* GET /public-key/:username: status and, with 200, the stored key
GetPublicKeyRoute ==
    /\ \E username \in Usernames :
         lastStep' =
           IF username \notin DOMAIN users \/ users[username].publicKey = Null
           THEN [op |-> "public-key", username |-> username, status |-> 404]
           ELSE [op |-> "public-key", username |-> username, status |-> 200,
                 publicKey |-> getPublicKey(username)]
    /\ UNCHANGED <<mc, kxMessages, msgStore, users, kxContext, chatMessages,
                   msgSeq, kxVerified, inboxRun, sendRun, fresh, nextId, wire,
                   replays, sends>>

(***************************************************************************)
(* Server: the key-exchange routes on their own                            *)
(***************************************************************************)
\* Registered usernames: the register route compares usernames exactly, so
\* names that differ only in case are different accounts
Accounts == Users \cup {"Alice"}

\* The Authorization header of a request: the token login signed for an
\* account, no header, a header with no token after the scheme, or a token
\* that jwt.verify rejects
AuthHeaders ==
    {[kind |-> "valid", username |-> a] : a \in Accounts} \cup
    {[kind |-> "missing"], [kind |-> "noToken"], [kind |-> "invalid"]}

tokenOf(account) == [kind |-> "valid", username |-> account]

\* A middleware that lets a request through when jwt.verify throws
authenticateToken_lax(auth) ==
    IF auth.kind = "missing" THEN [status |-> 401]
    ELSE IF auth.kind = "noToken" THEN [status |-> 401]
    ELSE IF auth.kind = "invalid" THEN [status |-> 200, username |-> ""]
    ELSE [status |-> 200, username |-> auth.username]

\* authenticateToken: 401, or next() with req.user = the token's payload
authenticateToken(auth) ==
    IF auth.kind = "missing" THEN [status |-> 401]
    ELSE IF auth.kind = "noToken" THEN [status |-> 401]
    ELSE IF auth.kind = "invalid" THEN [status |-> 401]
    ELSE [status |-> 200, username |-> auth.username]

\* The response of the middleware to a request it does not let through
Rejected(route, auth) ==
    [op |-> "rejected", route |-> route, auth |-> auth.kind, status |-> 401]

\* A from field in a request body; "" stands for none
BodyFrom == {"", "bob"}

\* A route taking the sender from the request body when it has one
senderOf_body(username, bodyFrom) ==
    IF bodyFrom # "" THEN bodyFrom ELSE username

\* from: req.user.username
senderOf(username, bodyFrom) == username

\* A check that forgets the payload
kxSendStatus_noPayload(to, messageType, payload) ==
    IF to = "" \/ messageType = "" THEN 400 ELSE 200

\* POST /kx/send: the response status; "" stands for a missing field
kxSendStatus(to, messageType, payload) ==
    IF to = "" \/ messageType = "" \/ payload = "" THEN 400 ELSE 200

\* POST /kx/send
KxSendRoute(auth) ==
    /\ IF authenticateToken(auth).status = 401
       THEN /\ kxMessages' = kxMessages
            /\ lastStep' = Rejected("kx-send", auth)
            /\ nextId' = nextId
       ELSE \E to \in Accounts \cup {""}, messageType \in {"KEY_INIT", ""},
               payload \in {"payload", ""}, from \in BodyFrom :
              LET username == authenticateToken(auth).username
                  status == kxSendStatus(to, messageType, payload)
              IN  /\ nextId + sends <= MaxQueued
                  /\ nextId' = nextId + 1
                  /\ kxMessages' =
                        IF status = 200
                        THEN kxSend(kxMessages, nextId,
                                    senderOf(username, from), to,
                                    messageType, payload)
                        ELSE kxMessages
                  /\ lastStep' = [op |-> "kx-send", auth |-> auth.kind,
                                  user |-> username, status |-> status,
                                  id |-> nextId, bodyFrom |-> from,
                                  body |-> [to |-> to,
                                            messageType |-> messageType,
                                            payload |-> payload]]
    /\ UNCHANGED <<mc, msgStore, users, kxContext, chatMessages, msgSeq,
                   kxVerified, inboxRun, sendRun, fresh, wire, replays, sends>>

\* GET /kx/inbox
KxInboxRoute(auth) ==
    /\ IF authenticateToken(auth).status = 401
       THEN /\ kxMessages' = kxMessages
            /\ lastStep' = Rejected("kx-inbox", auth)
       ELSE LET username == authenticateToken(auth).username
            IN  /\ lastStep' = [op |-> "kx-inbox", auth |-> auth.kind,
                                user |-> username, status |-> 200,
                                messages |-> inboxOf(kxMessages, username)]
                /\ kxMessages' = removeDelivered(kxMessages,
                                                 inboxOf(kxMessages, username))
    /\ UNCHANGED <<mc, msgStore, users, kxContext, chatMessages, msgSeq,
                   kxVerified, inboxRun, sendRun, fresh, nextId, wire, replays,
                   sends>>

(***************************************************************************)
(* Server: the encrypted-message routes on their own                       *)
(***************************************************************************)
\* A timestamp value that new Date() turns into an Invalid Date
BadDate == -1

SessionIds == {"s1", "s2"}

\* Request bodies of POST /messages/send that pass its validation.  Timestamp
\* 0 stands for no timestamp; typeofMsgSeq is typeof msgSeq.
WellFormedBodies ==
    [sessionId : SessionIds, to : Users, ciphertext : {"ct"}, iv : {"iv"},
     msgSeq : {0, 1}, typeofMsgSeq : {"number"}, timestamp : {0, 5, BadDate},
     from : BodyFrom]

\* Bodies with one required field missing ("") or msgSeq not a number
MalformedBodies ==
    LET b == [sessionId |-> "s1", to |-> "bob", ciphertext |-> "ct",
              iv |-> "iv", msgSeq |-> 1, typeofMsgSeq |-> "number",
              timestamp |-> 0, from |-> ""]
    IN  {[b EXCEPT !.sessionId = ""], [b EXCEPT !.to = ""],
         [b EXCEPT !.ciphertext = ""], [b EXCEPT !.iv = ""],
         [b EXCEPT !.typeofMsgSeq = "string"],
         [b EXCEPT !.typeofMsgSeq = "undefined"]}

\* Bodies without a from field: every well-formed body of session s1, one
\* body per recipient of session s2, and the malformed
MsgBodies ==
    {b \in WellFormedBodies :
        /\ b.from = ""
        /\ b.sessionId = "s2" => (b.msgSeq = 1 /\ b.timestamp = 0)}
    \cup MalformedBodies

\* The bodies of one session, one msgSeq and no timestamp, and the malformed
PlainBodies ==
    {b \in WellFormedBodies :
        b.sessionId = "s1" /\ b.msgSeq = 1 /\ b.timestamp = 0}
    \cup MalformedBodies

\* timestamp ? new Date(timestamp) : new Date()
timestampOf(body, now) == IF body.timestamp # 0 THEN body.timestamp ELSE now

\* POST /messages/send: the response status.  400 from the route's check,
\* 500 when message.save() rejects because the timestamp is not a date
messagesSendStatus(body) ==
    IF \/ body.sessionId = "" \/ body.to = "" \/ body.ciphertext = ""
       \/ body.iv = "" \/ body.typeofMsgSeq # "number"
    THEN 400
    ELSE IF body.timestamp = BadDate THEN 500
    ELSE 201

\* POST /messages/send, with a body out of `bodies`
MsgSendRoute(auth, bodies) ==
    /\ IF authenticateToken(auth).status = 401
       THEN /\ msgStore' = msgStore
            /\ lastStep' = Rejected("messages-send", auth)
            /\ sends' = sends
       ELSE \E body \in bodies, now \in ClockNow :
              LET username == authenticateToken(auth).username
                  status == messagesSendStatus(body)
              IN  /\ nextId + sends <= MaxQueued
                  /\ sends' = sends + 1
                  /\ msgStore' =
                        IF status = 201
                        THEN storeMessage(msgStore,
                                 senderOf(username, body.from),
                                 [body EXCEPT !.timestamp = timestampOf(body, now)])
                        ELSE msgStore
                  /\ lastStep' = [op |-> "messages-send", auth |-> auth.kind,
                                  user |-> username, status |-> status,
                                  body |-> body]
    /\ UNCHANGED <<mc, kxMessages, users, kxContext, chatMessages, msgSeq,
                   kxVerified, inboxRun, sendRun, fresh, nextId, wire, replays>>

\* GET /messages/conversation/:peerUsername/:sessionId
MsgConversationRoute(auth) ==
    /\ IF authenticateToken(auth).status = 401
       THEN lastStep' = Rejected("conversation", auth)
       ELSE \E peer \in Accounts, sessionId \in SessionIds :
              LET me == authenticateToken(auth).username
              IN  lastStep' = [op |-> "conversation", auth |-> auth.kind,
                               user |-> me, peer |-> peer,
                               sessionId |-> sessionId, status |-> 200,
                               messages |-> getConversation(msgStore, me, peer,
                                                            sessionId)]
    /\ UNCHANGED <<mc, kxMessages, msgStore, users, kxContext, chatMessages,
                   msgSeq, kxVerified, inboxRun, sendRun, fresh, nextId, wire,
                   replays, sends>>

(***************************************************************************)
(* Specifications                                                          *)
(***************************************************************************)
Init == mc = McIdle /\ ProtoInit

\* The key-exchange handlers of every user over the server's queue, and raw
\* requests to /kx/send
Next ==
    \E u \in Users :
        \/ \E peer \in Users \ {u} : handleStartKeyExchange(u, peer)
        \/ CheckInboxFetch(u)
        \/ ProcessKeyInit(u)
        \/ ProcessKeyResp(u)
        \/ ProcessKeyConfirmA(u)
        \/ ProcessKeyConfirmB(u)
        \/ ProcessUnrelated(u)
        \/ KxSendRaw(u)

Spec == Init /\ [][Next]_vars

\* The key-exchange handlers and the chat handlers of every user
NextChat ==
    \E u \in Users :
        \/ \E peer \in Users \ {u} : handleStartKeyExchange(u, peer)
        \/ CheckInboxFetch(u)
        \/ ProcessKeyInit(u)
        \/ ProcessKeyResp(u)
        \/ ProcessKeyConfirmA(u)
        \/ ProcessKeyConfirmB(u)
        \/ ProcessUnrelated(u)
        \/ SendBegin(u)
        \/ SendComplete(u)
        \/ SendFail(u)
        \/ HandleLoadMessages(u)

SpecChat == Init /\ [][NextChat]_vars

\* messageCrypto alone: any inputs, one encryption, a storage layer, decryption
InitMC == mc \in McInputs /\ ProtoInit

NextMC ==
    \/ McEncrypt
    \/ McAlterMeta
    \/ McTamperCiphertext
    \/ McAlterIv
    \/ McAlterTimestamp
    \/ McDecrypt

SpecMC == InitMC /\ [][NextMC]_vars

\* messageCrypto on the receiving side: repeated decryptMessage calls
InitRx == mc \in {m \in RxInputs : m.envs[1].msgSeq < m.envs[2].msgSeq} /\ ProtoInit

NextRx == RxDecrypt

SpecRx == InitRx /\ [][NextRx]_vars

\* The public-key routes, from accounts that have no key yet
InitAuth ==
    /\ mc = McIdle
    /\ users = [u \in Users |->
                  [publicKey |-> Null, setBy |-> Null, first |-> Null]]
    /\ EmptyInit

NextAuth == PostUpdatePublicKey \/ GetPublicKeyRoute

SpecAuth == InitAuth /\ [][NextAuth]_vars

\* The key-exchange routes called by the accounts, every account polling its
\* inbox again and again
NextKx ==
    \E caller \in Accounts :
        KxSendRoute(tokenOf(caller)) \/ KxInboxRoute(tokenOf(caller))

SpecKx ==
    /\ Init
    /\ [][NextKx]_vars
    /\ \A caller \in Accounts : WF_vars(KxInboxRoute(tokenOf(caller)))

\* The four authenticated routes, called with any Authorization header
NextApi ==
    \E auth \in AuthHeaders :
        \/ KxSendRoute(auth)
        \/ KxInboxRoute(auth)
        \/ MsgSendRoute(auth, PlainBodies)
        \/ MsgConversationRoute(auth)

SpecApi == Init /\ [][NextApi]_vars

\* The encrypted-message routes, called with any body and any header
NextMsg ==
    \E auth \in AuthHeaders :
        MsgSendRoute(auth, MsgBodies) \/ MsgConversationRoute(auth)

SpecMsg == Init /\ [][NextMsg]_vars

\* The end-to-end scenario: alice starts one handshake with bob, every queued
\* message is fetched and processed, every request succeeds, both may chat
StartOnce == kxContext["alice"] = Null /\ handleStartKeyExchange("alice", "bob")

\* What u's client does without waiting for input: checking the inbox, running
\* the loop, finishing a send and loading the conversation
Pending(u) ==
    \/ CheckInboxFetch(u)
    \/ ProcessKeyInit(u)
    \/ ProcessKeyResp(u)
    \/ ProcessKeyConfirmA(u)
    \/ ProcessKeyConfirmB(u)
    \/ SendComplete(u)
    \/ HandleLoadMessages(u)

NextLive ==
    \/ StartOnce
    \/ \E u \in Users : Pending(u) \/ SendBegin(u)

FairLive == WF_vars(StartOnce) /\ \A u \in Users : WF_vars(Pending(u))

SpecLive == Init /\ [][NextLive]_vars /\ FairLive

\* The key-exchange handlers where the peer typed into the form may also be a
\* registered user who is not running a client
PeerNames == Users \cup {"carol"}

NextAnyPeer ==
    \E u \in Users :
        \/ \E peer \in PeerNames \ {u} : handleStartKeyExchange(u, peer)
        \/ CheckInboxFetch(u)
        \/ ProcessKeyInit(u)
        \/ ProcessKeyResp(u)
        \/ ProcessKeyConfirmA(u)
        \/ ProcessKeyConfirmB(u)
        \/ ProcessUnrelated(u)
        \/ KxSendRaw(u)

SpecAnyPeer == Init /\ [][NextAnyPeer]_vars

(***************************************************************************)
(* Properties                                                              *)
(***************************************************************************)
\* Both parties hold a context for the same session with the same session key
\* and transcript hash, and the initiator has verified KEY_CONFIRM_B
Established ==
    /\ kxContext["alice"] # Null
    /\ kxContext["bob"] # Null
    /\ kxContext["alice"].role = "initiator"
    /\ kxContext["bob"].role = "responder"
    /\ kxContext["alice"].sessionId = kxContext["bob"].sessionId
    /\ kxContext["alice"].aesKey # Null
    /\ kxContext["alice"].aesKey = kxContext["bob"].aesKey
    /\ kxContext["alice"].transcriptHash = kxContext["bob"].transcriptHash
    /\ <<"KEY_CONFIRM_B", kxContext["alice"].sessionId>> \in kxVerified["alice"]

\* The content that was given to encryptMessage for a stored envelope
contentSealedIn(m) == jsonParse(utf8Decode(fromBase64(m.ciphertext).pt)).content

\* The stored messages alice encrypted with msgSeq = 1
AliceFirstStored ==
    {i \in DOMAIN msgStore : msgStore[i].from = "alice" /\ msgStore[i].msgSeq = 1}

\* bob's chat shows, as sent by alice, the content of every such message
BobReadsFirst ==
    \A i \in AliceFirstStored :
        \E j \in DOMAIN chatMessages["bob"] :
            /\ chatMessages["bob"][j].from = "alice"
            /\ chatMessages["bob"][j].content = contentSealedIn(msgStore[i])

\* C1: when alice starts a handshake with bob and every queued message is
\* fetched and processed, both eventually hold, for good, the same sessionId,
\* session key and transcript hash with KEY_CONFIRM_B verified by alice; and a
\* message alice then stores with msgSeq = 1 is eventually decrypted by bob to
\* the content alice encrypted.
C1_HandshakeThenFirstMessage ==
    /\ <>[]Established
    /\ (AliceFirstStored # {}) ~> (AliceFirstStored # {} /\ BobReadsFirst)

C1_Witness ==
    /\ Established
    /\ AliceFirstStored # {}
    /\ BobReadsFirst
    /\ \E j \in DOMAIN chatMessages["bob"] : chatMessages["bob"][j].from = "alice"

\* The envelope under test is the one built from encryptMessage's result and
\* the metadata given to it
McEnvelopeAsBuilt ==
    \E iv \in IVs, ts \in ClockNow :
        mc.env = envelopeOf(encryptMessage(mc.key, mc.sessionId, mc.from, mc.to,
                                           mc.msgSeq, mc.content, iv, ts),
                            mc.sessionId, mc.from, mc.to)

\* The envelope under test is the one built, with only msgSeq replaced
McOnlySeqAltered ==
    /\ mc.env.msgSeq # mc.msgSeq
    /\ \E iv \in IVs, ts \in ClockNow :
        mc.env = [envelopeOf(encryptMessage(mc.key, mc.sessionId, mc.from,
                                            mc.to, mc.msgSeq, mc.content, iv, ts),
                             mc.sessionId, mc.from, mc.to)
                  EXCEPT !.msgSeq = mc.env.msgSeq]

McMetaOfEnv == <<mc.env.sessionId, mc.env.from, mc.env.to, mc.env.msgSeq>>
McMetaGiven == <<mc.sessionId, mc.from, mc.to, mc.msgSeq>>

\* C2: decryptMessage under the same key, on the envelope built from
\* encryptMessage's result and the same sessionId, from, to and msgSeq, returns
\* the content that was encrypted and that same metadata.
C2_RoundTrip ==
    (mc.phase = "decrypted" /\ mc.decKey = mc.key /\ McEnvelopeAsBuilt)
        => /\ mc.res.ok
           /\ mc.res.content = mc.content
           /\ mc.res.from = mc.from
           /\ mc.res.to = mc.to
           /\ mc.res.sessionId = mc.sessionId
           /\ mc.res.msgSeq = mc.msgSeq

C2_Witness ==
    /\ mc.phase = "decrypted"
    /\ mc.decKey = mc.key
    /\ McEnvelopeAsBuilt
    /\ mc.from # mc.to
    /\ mc.res.ok
    /\ mc.res.content = mc.content

\* C3: an envelope whose (sessionId, from, to, msgSeq) differs from the tuple
\* given to encryptMessage never decrypts, so no ciphertext is accepted under
\* two distinct metadata tuples.
C3_MetadataTupleBound ==
    (mc.phase = "decrypted" /\ McMetaOfEnv # McMetaGiven) => ~mc.res.ok

\* C4: with the key and every other field unchanged, an envelope whose msgSeq
\* differs from the one given to encryptMessage makes decryptMessage throw, and
\* nothing is returned.
C4_SeqMutationFails ==
    (mc.phase = "decrypted" /\ mc.decKey = mc.key /\ McOnlySeqAltered)
        => mc.res = Thrown

C4_Witness ==
    /\ mc.phase = "decrypted"
    /\ mc.decKey = mc.key
    /\ McOnlySeqAltered
    /\ ~mc.res.ok

\* C5: decryptMessage throws whenever the key is not the encryption key, the
\* ciphertext or the iv was tampered with, or the metadata was altered.
C5_FailsClosed ==
    (/\ mc.phase = "decrypted"
     /\ \/ mc.decKey # mc.key
        \/ mc.env.ciphertext.b64.tag # "ok"
        \/ mc.env.iv # toBase64(mc.env.ciphertext.b64.iv)
        \/ McMetaOfEnv # McMetaGiven)
        => mc.res = Thrown

\* C6: the messages one sender has stored for one session carry strictly
\* increasing msgSeq values in the order they were stored, hence no msgSeq
\* twice.
C6_SeqStrictlyIncreasing ==
    \A i, j \in DOMAIN msgStore :
        (/\ i < j
         /\ msgStore[i].from = msgStore[j].from
         /\ msgStore[i].sessionId = msgStore[j].sessionId)
            => msgStore[i].msgSeq < msgStore[j].msgSeq

\* The step just taken was a loop iteration of u's handleCheckInbox
ProcessedBy(u) == lastStep'.op = "process" /\ lastStep'.user = u

\* C7: after the verification of a KEY_CONFIRM_A or KEY_CONFIRM_B failed, the
\* party's context no longer lets it chat in the session whose key failed.
C7_AbandonedAfterConfirmFailure ==
    [][\A u \in Users :
        (/\ ProcessedBy(u)
         /\ lastStep'.branch \in {"KEY_CONFIRM_A", "KEY_CONFIRM_B"}
         /\ lastStep'.threw)
            => ~(/\ canChat(kxContext'[u])
                 /\ kxContext'[u].sessionId = inboxRun[u].kxContext.sessionId)
      ]_vars

\* C8: a KEY_INIT whose processing throws leaves the receiver's kxContext as
\* it was and queues no message.
C8_FailedKeyInitChangesNothing ==
    [][\A u \in Users :
        (/\ ProcessedBy(u)
         /\ lastStep'.branch = "KEY_INIT"
         /\ lastStep'.threw)
            => /\ kxContext' = kxContext
               /\ kxMessages' = kxMessages
               /\ wire' = wire
      ]_vars

\* A signed KEY_INIT has just failed its signature check
C8_Witness ==
    /\ lastStep.op = "process"
    /\ lastStep.branch = "KEY_INIT"
    /\ lastStep.signed
    /\ lastStep.threw

\* C9: a KEY_RESP or KEY_CONFIRM_B processed while the party's context is
\* absent or a responder's, and a KEY_CONFIRM_A processed while it is absent or
\* an initiator's, changes no kxContext and queues no message.
C9_MismatchedIsDiscarded ==
    [][\A u \in Users :
        (/\ ProcessedBy(u)
         /\ \/ /\ lastStep'.messageType \in {"KEY_RESP", "KEY_CONFIRM_B"}
               /\ (kxContext[u] = Null \/ kxContext[u].role = "responder")
            \/ /\ lastStep'.messageType = "KEY_CONFIRM_A"
               /\ (kxContext[u] = Null \/ kxContext[u].role = "initiator"))
            => /\ kxContext' = kxContext
               /\ kxMessages' = kxMessages
      ]_vars

\* C10: a KEY_RESP, KEY_CONFIRM_A or KEY_CONFIRM_B of another sessionId than
\* the receiver's context changes neither the context's session key nor its
\* transcript hash and queues no message.
C10_OtherSessionIgnored ==
    [][\A u \in Users :
        (/\ ProcessedBy(u)
         /\ lastStep'.messageType \in {"KEY_RESP", "KEY_CONFIRM_A", "KEY_CONFIRM_B"}
         /\ kxContext[u] # Null
         /\ lastStep'.sessionId # kxContext[u].sessionId)
            => /\ kxContext'[u].aesKey = kxContext[u].aesKey
               /\ kxContext'[u].transcriptHash = kxContext[u].transcriptHash
               /\ kxMessages' = kxMessages
      ]_vars

\* C11: a message of a batch whose processing throws costs the batch nothing:
\* after any loop iteration of handleCheckInbox the messages that followed it in
\* the batch are still to be processed by that call.
C11_RestOfBatchProcessed ==
    [][\A u \in Users :
        (ProcessedBy(u) /\ Len(inboxRun[u].messages) > 1)
            => /\ inboxRun'[u] # Null
               /\ inboxRun'[u].messages = Tail(inboxRun[u].messages)
      ]_vars

\* C12: a context that holds a session key for a sessionId does not, one step
\* later, hold another key or no key for that same sessionId.
C12_KeyOfSessionIsStable ==
    [][\A u \in Users :
        (/\ kxContext[u] # Null
         /\ kxContext[u].aesKey # Null
         /\ kxContext'[u] # Null
         /\ kxContext'[u].sessionId = kxContext[u].sessionId)
            => kxContext'[u].aesKey = kxContext[u].aesKey
      ]_vars

\* C13: whoever holds the same session key as an initiator's context is the
\* user that context names as its peer.
C13_KeySharedWithNamedPeer ==
    \A u \in Users : \A v \in Users \ {u} :
        (/\ kxContext[u] # Null
         /\ kxContext[u].role = "initiator"
         /\ kxContext[u].aesKey # Null
         /\ kxContext[v] # Null
         /\ kxContext[v].aesKey = kxContext[u].aesKey)
            => kxContext[u].peer = v

\* The messages the step just taken appended to the server's queue
QueuedByStep == SubSeq(kxMessages', Len(kxMessages) + 1, Len(kxMessages'))

\* C14: a loop iteration of handleCheckInbox queues a KEY_CONFIRM_B only when it
\* is the KEY_CONFIRM_A branch, the KEY_CONFIRM_A it processed authenticates
\* under the session key and transcript hash of the handler's context, and the
\* KEY_CONFIRM_B is built for that session under that key; an iteration whose
\* KEY_CONFIRM_A verification throws queues nothing.
C14_ConfirmBOnlyAfterVerifiedA ==
    [][\A u \in Users : ProcessedBy(u) =>
        /\ \A i \in DOMAIN QueuedByStep :
             QueuedByStep[i].messageType = "KEY_CONFIRM_B" =>
                /\ lastStep'.branch = "KEY_CONFIRM_A"
                /\ ~lastStep'.threw
                /\ inboxRun[u].kxContext.role = "responder"
                /\ aesGcmDecrypt(inboxRun[u].kxContext.aesKey,
                                 Head(inboxRun[u].messages).payload.iv,
                                 [th |-> inboxRun[u].kxContext.transcriptHash],
                                 Head(inboxRun[u].messages).payload.confirm).ok
                /\ QueuedByStep[i].payload.confirm.key
                       = inboxRun[u].kxContext.aesKey
                /\ QueuedByStep[i].payload.confirm.pt.sessionId
                       = inboxRun[u].kxContext.sessionId
                /\ <<"KEY_CONFIRM_A", inboxRun[u].kxContext.sessionId>>
                       \in kxVerified'[u]
        /\ (lastStep'.branch = "KEY_CONFIRM_A" /\ lastStep'.threw)
               => kxMessages' = kxMessages
      ]_vars

\* A responder has just verified a KEY_CONFIRM_A and queued its KEY_CONFIRM_B
C14_Witness ==
    /\ lastStep.op = "process"
    /\ lastStep.branch = "KEY_CONFIRM_A"
    /\ ~lastStep.threw
    /\ kxMessages # <<>>
    /\ kxMessages[Len(kxMessages)].messageType = "KEY_CONFIRM_B"
    /\ kxMessages[Len(kxMessages)].from = lastStep.user

\* A KEY_CONFIRM_A has just failed verification
C14_FailedCase ==
    /\ lastStep.op = "process"
    /\ lastStep.branch = "KEY_CONFIRM_A"
    /\ lastStep.threw

\* C15: a responder's context lets it chat from the moment it exists, whether
\* or not a KEY_CONFIRM_A was verified or a KEY_CONFIRM_B sent; the witness is
\* a state where it has stored a message before either.
C15_ResponderMayChatAtOnce ==
    \A u \in Users :
        (kxContext[u] # Null /\ kxContext[u].role = "responder")
            => canChat(kxContext[u])

C15_Witness ==
    \E i \in DOMAIN msgStore :
        /\ kxContext[msgStore[i].from] # Null
        /\ kxContext[msgStore[i].from].role = "responder"
        /\ msgStore[i].sessionId = kxContext[msgStore[i].from].sessionId
        /\ fromBase64(msgStore[i].ciphertext).key
               = kxContext[msgStore[i].from].aesKey
        /\ kxVerified[msgStore[i].from] = {}
        /\ \A m \in wire : m.messageType # "KEY_CONFIRM_B"

\* C16: kxContext[u] is the one context u holds. After a KEY_INIT iteration that
\* succeeded it is the responder context of that KEY_INIT and nothing else, and
\* after handleStartKeyExchange it is a new initiator context without a key:
\* every field is set anew, none is kept from the context it replaced.
C16_ContextReplacedWhole ==
    [][\A u \in Users :
        /\ (/\ ProcessedBy(u)
            /\ lastStep'.branch = "KEY_INIT"
            /\ ~lastStep'.threw)
              => /\ kxContext'[u].role = "responder"
                 /\ kxContext'[u].peer = lastStep'.from
                 /\ kxContext'[u].sessionId = lastStep'.sessionId
                 /\ kxContext'[u].keyInitBody
                        = Head(inboxRun[u].messages).payload.body
                 /\ kxContext'[u].initContext = Null
                 /\ kxContext'[u].aesKey
                        = processKeyInitAndCreateResp(
                              Head(inboxRun[u].messages).payload,
                              getPublicKey(lastStep'.from), u, fresh
                          ).sessionContext.aesKey
                 /\ kxContext'[u].transcriptHash
                        = processKeyInitAndCreateResp(
                              Head(inboxRun[u].messages).payload,
                              getPublicKey(lastStep'.from), u, fresh
                          ).sessionContext.transcriptHash
        /\ (lastStep'.op = "other" /\ kxContext'[u] # kxContext[u])
              => /\ kxContext'[u].role = "initiator"
                 /\ kxContext'[u].aesKey = Null
                 /\ kxContext'[u].transcriptHash = Null
                 /\ kxContext'[u].keyInitBody.from = u
                 /\ kxContext'[u].keyInitBody.to = kxContext'[u].peer
                 /\ kxContext'[u].keyInitBody.sessionId = kxContext'[u].sessionId
                 /\ kxContext'[u].initContext.sessionId = kxContext'[u].sessionId
                 /\ kxContext[u] # Null
                        => kxContext'[u].sessionId # kxContext[u].sessionId
      ]_vars

\* A party that had started a handshake of its own has just processed a valid
\* KEY_INIT and is now a responder
C16_Witness ==
    /\ lastStep.op = "process"
    /\ lastStep.branch = "KEY_INIT"
    /\ ~lastStep.threw
    /\ kxContext[lastStep.user].role = "responder"
    /\ \E m \in wire : /\ m.messageType = "KEY_INIT"
                       /\ m.payload.body.from = lastStep.user

\* C17: every call of decryptMessage on a valid envelope succeeds and returns
\* the content and metadata of that envelope, whatever calls came before it:
\* the same envelope again, or an envelope with a higher msgSeq first.
C17_ReplayDecrypts ==
    mc.phase = "replay" =>
        \A j \in DOMAIN mc.calls :
            /\ mc.calls[j].res.ok
            /\ mc.calls[j].res.msgSeq = mc.envs[mc.calls[j].i].msgSeq
            /\ mc.calls[j].res.content
                   = contentSealedIn(mc.envs[mc.calls[j].i])
            /\ \A k \in DOMAIN mc.calls :
                   mc.calls[k].i = mc.calls[j].i
                       => mc.calls[k].res = mc.calls[j].res

\* The higher msgSeq was decrypted first, then the lower one twice
C17_Witness ==
    /\ mc.phase = "replay"
    /\ Len(mc.calls) = MaxDecrypts
    /\ mc.calls[1].i = Len(mc.envs)
    /\ \A j \in DOMAIN mc.calls : j > 1 => mc.calls[j].i = 1
    /\ \A j \in DOMAIN mc.calls : mc.calls[j].res.ok

\* C18: a 200 answer of GET /public-key/:username carries the key that was
\* first stored for that user.
C18_PublicKeyNeverChanges ==
    (lastStep.op = "public-key" /\ lastStep.status = 200)
        => lastStep.publicKey = users[lastStep.username].first

\* C19: a 200 answer of GET /public-key/:username carries a key that the user
\* it names stored.
C19_PublicKeySetByOwner ==
    (lastStep.op = "public-key" /\ lastStep.status = 200)
        => users[lastStep.username].setBy = lastStep.username

\* The message with this id is queued for account a
QueuedFor(id, a) ==
    \E i \in DOMAIN kxMessages : kxMessages[i].id = id /\ kxMessages[i].to = a

\* The last request was a GET /kx/inbox of account a that returned this id
ReturnedTo(id, a) ==
    /\ lastStep.op = "kx-inbox"
    /\ lastStep.user = a
    /\ \E j \in DOMAIN lastStep.messages : lastStep.messages[j].id = id

\* C20: a message accepted by POST /kx/send leaves kxMessages only in a
\* GET /kx/inbox of the user it is addressed to, which returns it; and while
\* that user keeps polling, it is eventually returned to them.
C20_QueuedIsDelivered ==
    /\ [][\A i \in DOMAIN kxMessages :
            (\A j \in DOMAIN kxMessages' : kxMessages'[j].id # kxMessages[i].id)
                => /\ lastStep'.op = "kx-inbox"
                   /\ lastStep'.user = kxMessages[i].to
                   /\ \E j \in DOMAIN lastStep'.messages :
                          lastStep'.messages[j] = kxMessages[i]
       ]_vars
    /\ \A id \in 1..MaxQueued : \A a \in Accounts :
          QueuedFor(id, a) ~> ReturnedTo(id, a)

\* The key and the iv that encryptMessage used for a ciphertext it returned
keySealedIn(ciphertext) == fromBase64(ciphertext).key
ivSealedIn(ciphertext) == fromBase64(ciphertext).iv

\* The encryptMessage calls on record: one per request in flight and one per
\* stored message
EncryptCalls ==
    {<<"run", u, i>> : u \in Users, i \in 1..MaxInFlight} \cup
    {<<"store", "", i>> : i \in DOMAIN msgStore}

\* The ciphertext an encryptMessage call on record returned
ciphertextOfCall(c) ==
    IF c[1] = "store" THEN msgStore[c[3]].ciphertext
    ELSE sendRun[c[2]][c[3]].encrypted.ciphertext

\* C21: any two encryptMessage calls under the same session key used different
\* initialization vectors.
C21_IvNeverRepeats ==
    \A c \in EncryptCalls : \A d \in EncryptCalls \ {c} :
        (/\ c[1] = "run" => c[3] \in DOMAIN sendRun[c[2]]
         /\ d[1] = "run" => d[3] \in DOMAIN sendRun[d[2]])
            => (keySealedIn(ciphertextOfCall(c)) = keySealedIn(ciphertextOfCall(d))
                   => ivSealedIn(ciphertextOfCall(c)) # ivSealedIn(ciphertextOfCall(d)))

\* The ids of the messages in a queue or in an inbox response
idsOf(msgs) == {msgs[i].id : i \in DOMAIN msgs}

\* C22: GET /kx/inbox is fetch-and-clear.  After the call of user U the queue
\* holds none of the messages addressed to U that it held before, every
\* message the call returned has left the queue, and an id that has left the
\* queue is never queued again, so no message is returned by two inbox calls.
C22_FetchAndClear ==
    /\ [][lastStep'.op = "kx-inbox" /\ lastStep' # lastStep =>
            /\ \A i \in DOMAIN kxMessages :
                  kxMessages[i].to = lastStep'.user
                      => kxMessages[i].id \notin idsOf(kxMessages')
            /\ idsOf(lastStep'.messages) \subseteq idsOf(kxMessages)
            /\ idsOf(lastStep'.messages) \cap idsOf(kxMessages') = {}
       ]_vars
    /\ [][\A id \in idsOf(kxMessages') \ idsOf(kxMessages) :
            id = nextId /\ nextId' > nextId]_vars
    /\ [](\A i \in DOMAIN kxMessages :
            /\ kxMessages[i].id < nextId
            /\ \A j \in DOMAIN kxMessages : i # j => kxMessages[i].id # kxMessages[j].id)

\* An inbox call has returned one of two queued messages and left the other
C22_Witness ==
    /\ lastStep.op = "kx-inbox"
    /\ Len(lastStep.messages) = 1
    /\ lastStep.messages[1].to = lastStep.user
    /\ Len(kxMessages) = 1
    /\ kxMessages[1].to # lastStep.user

\* C23: GET /kx/inbox returns a message only to the user whose username is
\* exactly its recipient field, and no call of another user removes it.
C23_OnlyExactRecipient ==
    [][lastStep'.op = "kx-inbox" /\ lastStep' # lastStep =>
          /\ \A j \in DOMAIN lastStep'.messages :
                lastStep'.messages[j].to = lastStep'.user
          /\ \A i \in DOMAIN kxMessages :
                kxMessages[i].id \notin idsOf(kxMessages')
                    => kxMessages[i].to = lastStep'.user
      ]_vars

\* C24: GET /kx/inbox of user U leaves the queued messages addressed to other
\* users in the queue, unchanged and in their order, and returns the messages
\* addressed to U in the order in which they were queued.
C24_InboxFrameAndOrder ==
    [][lastStep'.op = "kx-inbox" /\ lastStep' # lastStep =>
          /\ kxMessages' =
                SelectSeq(kxMessages, LAMBDA m : m.to # lastStep'.user)
          /\ SelectSeq(lastStep'.messages, LAMBDA m : m.to = lastStep'.user) =
                SelectSeq(kxMessages, LAMBDA m : m.to = lastStep'.user)
      ]_vars

\* The iv field an encryptMessage call on record returned
ivOfCall(c) ==
    IF c[1] = "store" THEN msgStore[c[3]].iv
    ELSE sendRun[c[2]][c[3]].encrypted.iv

\* The encryptMessage calls on record that exist in this state
CallsOnRecord ==
    {c \in EncryptCalls : c[1] = "run" => c[3] \in DOMAIN sendRun[c[2]]}

\* C21 as amended: every encryptMessage call encrypts with a value that
\* randomBytes(12) can return and reports exactly that value as its iv.
C21_IvDrawnPerCall ==
    \A c \in CallsOnRecord :
        /\ ivSealedIn(ciphertextOfCall(c)) \in IVs
        /\ ivOfCall(c) = toBase64(ivSealedIn(ciphertextOfCall(c)))

\* Two encryptMessage calls under one session key have drawn the same iv
C21_Witness ==
    \E c \in CallsOnRecord : \E d \in CallsOnRecord \ {c} :
        /\ keySealedIn(ciphertextOfCall(c)) = keySealedIn(ciphertextOfCall(d))
        /\ ivSealedIn(ciphertextOfCall(c)) = ivSealedIn(ciphertextOfCall(d))

\* C25: the from field of a message that enters kxMessages or the message
\* store is the username of the authenticated caller of the request that
\* submitted it, whatever from field the request body carries.
C25_FromIsAuthenticatedCaller ==
    [][/\ \A j \in DOMAIN kxMessages' :
             kxMessages'[j].id \notin idsOf(kxMessages)
                 => /\ lastStep'.op = "kx-send"
                    /\ lastStep'.auth = "valid"
                    /\ kxMessages'[j].from = lastStep'.user
       /\ msgStore' # msgStore
             => /\ lastStep'.op = "messages-send"
                /\ lastStep'.auth = "valid"
                /\ Len(msgStore') = Len(msgStore) + 1
                /\ msgStore'[Len(msgStore')].from = lastStep'.user
      ]_vars

\* alice has sent a key-exchange message, and a chat message whose body names
\* bob as the sender; both are held as sent by alice
C25_Witness ==
    /\ lastStep.op = "messages-send"
    /\ lastStep.status = 201
    /\ lastStep.user = "alice"
    /\ lastStep.body.from = "bob"
    /\ msgStore[Len(msgStore)].from = "alice"
    /\ \E i \in DOMAIN kxMessages : kxMessages[i].from = "alice"

\* C26: a request to one of the four authenticated routes whose Authorization
\* header is missing, has no token after the scheme or carries a token that
\* fails verification is answered 401 by the middleware, and kxMessages and
\* the message store stay as they were.
C26_UnauthenticatedIsRejected ==
    [][lastStep'.auth # "valid" =>
          /\ lastStep'.status = 401
          /\ lastStep'.op = "rejected"
          /\ kxMessages' = kxMessages
          /\ msgStore' = msgStore
      ]_vars

\* A request with a token that fails verification has been rejected while
\* both the queue and the store hold a message
C26_Witness ==
    /\ lastStep.op = "rejected"
    /\ lastStep.auth = "invalid"
    /\ lastStep.route \in {"kx-send", "messages-send"}
    /\ kxMessages # <<>>
    /\ msgStore # <<>>

\* The required fields of a /messages/send body are present and msgSeq is a
\* number
requiredPresent(body) ==
    /\ body.sessionId # ""
    /\ body.to # ""
    /\ body.ciphertext # ""
    /\ body.iv # ""
    /\ body.typeofMsgSeq = "number"

\* C27: POST /messages/send stores exactly one record, made of the body's
\* fields, when sessionId, to, ciphertext and iv are present and msgSeq is a
\* number, 0 included; otherwise it responds 400 and stores nothing.
C27_StoresOneOrRejects ==
    [][lastStep'.op = "messages-send" /\ sends' = sends + 1 =>
          IF requiredPresent(lastStep'.body)
          THEN /\ Len(msgStore') = Len(msgStore) + 1
               /\ SubSeq(msgStore', 1, Len(msgStore)) = msgStore
               /\ msgStore'[Len(msgStore')].sessionId = lastStep'.body.sessionId
               /\ msgStore'[Len(msgStore')].to = lastStep'.body.to
               /\ msgStore'[Len(msgStore')].ciphertext = lastStep'.body.ciphertext
               /\ msgStore'[Len(msgStore')].iv = lastStep'.body.iv
               /\ msgStore'[Len(msgStore')].msgSeq = lastStep'.body.msgSeq
          ELSE /\ lastStep'.status = 400
               /\ msgStore' = msgStore
      ]_vars

\* C28: POST /kx/send with to, messageType or payload missing responds 400 and
\* leaves kxMessages as it was; with all three present it appends exactly one
\* message, made of the body's fields, after the messages already queued.
C28_KxSendValidates ==
    [][lastStep'.op = "kx-send" /\ nextId' = nextId + 1 =>
          IF \/ lastStep'.body.to = ""
             \/ lastStep'.body.messageType = ""
             \/ lastStep'.body.payload = ""
          THEN /\ lastStep'.status = 400
               /\ kxMessages' = kxMessages
          ELSE /\ lastStep'.status = 200
               /\ Len(kxMessages') = Len(kxMessages) + 1
               /\ SubSeq(kxMessages', 1, Len(kxMessages)) = kxMessages
               /\ kxMessages'[Len(kxMessages')].to = lastStep'.body.to
               /\ kxMessages'[Len(kxMessages')].messageType =
                      lastStep'.body.messageType
               /\ kxMessages'[Len(kxMessages')].payload = lastStep'.body.payload
      ]_vars

\* A request without a payload has been answered 400 while a message is queued
C28_Witness ==
    /\ lastStep.op = "kx-send"
    /\ lastStep.status = 400
    /\ lastStep.body.to # ""
    /\ lastStep.body.messageType # ""
    /\ lastStep.body.payload = ""
    /\ kxMessages # <<>>

\* C29: GET /messages/conversation returns to caller me only stored messages
\* of the requested session that me sent to the peer or the peer sent to me,
\* so never a message me neither sent nor received.
C29_OnlyOwnConversation ==
    lastStep.op = "conversation" =>
        \A i \in DOMAIN lastStep.messages :
            LET m == lastStep.messages[i]
            IN  /\ \E k \in DOMAIN msgStore : msgStore[k] = m
                /\ m.sessionId = lastStep.sessionId
                /\ \/ (m.from = lastStep.user /\ m.to = lastStep.peer)
                   \/ (m.from = lastStep.peer /\ m.to = lastStep.user)
                /\ lastStep.user \in {m.from, m.to}

\* A conversation was returned while the store also holds a message of the
\* same session that the caller neither sent nor received
C29_Witness ==
    /\ lastStep.op = "conversation"
    /\ lastStep.messages # <<>>
    /\ \E k \in DOMAIN msgStore :
          /\ msgStore[k].sessionId = lastStep.sessionId
          /\ lastStep.user \notin {msgStore[k].from, msgStore[k].to}
          /\ lastStep.peer \in {msgStore[k].from, msgStore[k].to}

\* C30: the list GET /messages/conversation returns is in non-decreasing
\* msgSeq order, messages of equal msgSeq in non-decreasing timestamp order,
\* whichever direction each message went.
C30_ConversationSorted ==
    lastStep.op = "conversation" =>
        \A i \in DOMAIN lastStep.messages : \A j \in DOMAIN lastStep.messages :
            i < j =>
                \/ lastStep.messages[i].msgSeq < lastStep.messages[j].msgSeq
                \/ /\ lastStep.messages[i].msgSeq = lastStep.messages[j].msgSeq
                   /\ lastStep.messages[i].timestamp <=
                          lastStep.messages[j].timestamp

\* The returned list holds one message of each direction with the same msgSeq,
\* the one stored second having the earlier timestamp and coming first
C30_Witness ==
    /\ lastStep.op = "conversation"
    /\ Len(lastStep.messages) = 2
    /\ Len(msgStore) = 2
    /\ lastStep.messages[1] = msgStore[2]
    /\ lastStep.messages[2] = msgStore[1]
    /\ lastStep.messages[1].from = lastStep.messages[2].to
    /\ lastStep.messages[1].from # lastStep.messages[1].to
    /\ lastStep.messages[1].msgSeq = lastStep.messages[2].msgSeq
    /\ lastStep.messages[1].timestamp < lastStep.messages[2].timestamp

\* The party holds a context with a session key
HoldsSessionKey(u) == kxContext[u] # Null /\ kxContext[u].aesKey # Null

timestampSealedIn(m) ==
    jsonParse(utf8Decode(fromBase64(m.ciphertext).pt)).timestamp

\* C32: when decryptMessage succeeds, the timestamp it returns is the one
\* sealed in the plaintext, and the envelope with any other value in its
\* timestamp field decrypts to the same result.
C32_TimestampFromPlaintext ==
    (mc.phase = "decrypted" /\ mc.res.ok) =>
        /\ mc.res.timestamp = timestampSealedIn(mc.env)
        /\ \A ts \in EnvTimestamps \cup ClockNow :
              decryptMessage(mc.decKey, [mc.env EXCEPT !.timestamp = ts]) = mc.res

\* An envelope whose timestamp field was replaced has decrypted, and the
\* result carries the sender's timestamp
C32_Witness ==
    /\ mc.phase = "decrypted"
    /\ mc.res.ok
    /\ mc.env.timestamp # timestampSealedIn(mc.env)
    /\ mc.env.timestamp # 0
    /\ mc.res.timestamp = timestampSealedIn(mc.env)

====
